---- MODULE Spec2Model ----
(***************************************************************************)
(* A model of the ADF4351 synthesizer controller (class ADF4351): the six  *)
(* 32-bit register words, the fields they are computed from, the public    *)
(* operations, and the bit-banged three-wire transfer of each word.        *)
(*                                                                         *)
(* TLC's integers are 32-bit signed, while the program works on unsigned   *)
(* 32-bit words and the callers' frequencies reach 4.4e9.  A number is     *)
(* therefore kept as a pair <<hi, lo>> standing for hi * 65536 + lo with   *)
(* 0 <= lo < 65536; a uint32_t is such a pair with hi < 65536.             *)
(***************************************************************************)
EXTENDS Integers, Sequences, FiniteSets, TLC

(***************************************************************************)
(* Arithmetic on pairs.                                                    *)
(***************************************************************************)
Half == 256 * 256

WNorm(hi, lo) == <<hi + (lo \div Half), lo % Half>>

WInt(n) == WNorm(0, n)

WZero == <<0, 0>>

WAdd(a, b) == WNorm(a[1] + b[1], a[2] + b[2])

WLess(a, b) == a[1] < b[1] \/ (a[1] = b[1] /\ a[2] < b[2])

WLeq(a, b) == a = b \/ WLess(a, b)

\* a - b, for b <= a
WSub(a, b) ==
    IF a[2] >= b[2] THEN <<a[1] - b[1], a[2] - b[2]>>
    ELSE <<a[1] - b[1] - 1, a[2] + Half - b[2]>>

\* a * k for a small k (k <= 1000)
WMul(a, k) == WNorm(a[1] * k, a[2] * k)

\* the value a decimal literal of the source denotes: mega * 10^6 + units
Hz(mega, units) == WAdd(WMul(WMul(WInt(mega), 1000), 1000), WInt(units))

\* conversion to uint32_t: the value modulo 2^32
U32(a) == <<a[1] % Half, a[2]>>

\* conversion of a uint32_t to uint16_t and to uint8_t
U16(a) == a[2]

IsU32(a) == a[1] \in 0..(Half - 1) /\ a[2] \in 0..(Half - 1)

PowersOf2 ==
    <<1, 2, 4, 8, 16, 32, 64, 128, 256, 512, 1024, 2048, 4096, 8192, 16384,
      32768, 65536, 131072, 262144, 524288, 1048576, 2097152, 4194304,
      8388608, 16777216, 33554432, 67108864, 134217728, 268435456,
      536870912, 1073741824>>

\* 2^n for n in 0..30
Pow2(n) == PowersOf2[n + 1]

\* the number of binary digits of a (a < 2^46)
BitLen(a) ==
    LET len(n) == CHOOSE k \in 0..30 : n < Pow2(k) /\ (k = 0 \/ Pow2(k - 1) <= n)
    IN  IF a[1] > 0 THEN 16 + len(a[1]) ELSE len(a[2])

\* the k in 0..255 with b * k <= a < b * (k + 1), for 0 < b and a < 256 * b:
\* its high four bits h first, then its low four bits
QuotientDigit(a, b) ==
    LET h == CHOOSE h \in 0..15 :
                WLeq(WMul(b, 16 * h), a) /\ WLess(a, WMul(b, 16 * (h + 1)))
    IN  CHOOSE k \in (16 * h)..(16 * h + 15) :
            WLeq(WMul(b, k), a) /\ WLess(a, WMul(b, k + 1))

\* byte i of a, i = 1 the most significant of five (a < 2^40)
Byte(a, i) ==
    CASE i = 1 -> a[1] \div 65536
      [] i = 2 -> (a[1] \div 256) % 256
      [] i = 3 -> a[1] % 256
      [] i = 4 -> a[2] \div 256
      [] i = 5 -> a[2] % 256

\* <<quotient, remainder>> of the number made of the first i bytes of a by b:
\* long division, one byte of a at a time
RECURSIVE DivBytes(_, _, _)
DivBytes(a, b, i) ==
    IF i = 0 THEN <<WZero, WZero>>
    ELSE LET p   == DivBytes(a, b, i - 1)
             cur == WAdd(WMul(p[2], 256), WInt(Byte(a, i)))
             k   == QuotientDigit(cur, b)
         IN  <<WAdd(WMul(p[1], 256), WInt(k)), WSub(cur, WMul(b, k))>>

\* <<quotient, remainder>> of a by b, for a < 2^40 and 0 < b < 2^32
WDivMod(a, b) == DivBytes(a, b, 5)

(***************************************************************************)
(* Bit operations of C on uint32_t values.                                 *)
(***************************************************************************)
\* x & y for four-bit x and y, bit by bit
And4 ==
    [x \in 0..15 |-> [y \in 0..15 |->
        ((x % 2) * (y % 2))
        + 2 * (((x \div 2) % 2) * ((y \div 2) % 2))
        + 4 * (((x \div 4) % 2) * ((y \div 4) % 2))
        + 8 * ((x \div 8) * (y \div 8))]]

\* a & b for 16-bit a and b, four bits at a time
And16(a, b) ==
    And4[a % 16][b % 16]
    + 16 * And4[(a \div 16) % 16][(b \div 16) % 16]
    + 256 * And4[(a \div 256) % 16][(b \div 256) % 16]
    + 4096 * And4[a \div 4096][b \div 4096]

\* a & b
BitAnd(a, b) == <<And16(a[1], b[1]), And16(a[2], b[2])>>

\* a | b = a + b - (a & b)
BitOr(a, b) ==
    <<a[1] + b[1] - And16(a[1], b[1]), a[2] + b[2] - And16(a[2], b[2])>>

\* ~a
BitNot(a) == <<Half - 1 - a[1], Half - 1 - a[2]>>

\* a << n in 32 bits, n in 0..31 (the bits shifted past bit 31 are lost)
Shl(a, n) ==
    IF n >= 16 THEN <<(a[2] * Pow2(n - 16)) % Half, 0>>
    ELSE <<(a[1] * Pow2(n) + ((a[2] * Pow2(n)) \div Half)) % Half,
           (a[2] * Pow2(n)) % Half>>

\* a >> n, n in 0..31
Shr(a, n) ==
    IF n >= 16 THEN <<0, a[1] \div Pow2(n - 16)>>
    ELSE <<a[1] \div Pow2(n),
           (a[2] \div Pow2(n)) + (a[1] % Pow2(n)) * Pow2(16 - n)>>

\* (a >> i) & 0x01
Bit(a, i) == Shr(a, i)[2] % 2

\* the field of `width` bits (at most 16) of a that starts at bit `low`
Field(a, low, width) == Shr(a, low)[2] % Pow2(width)

(***************************************************************************)
(* The double arithmetic of updateRegisters, done exactly on binary        *)
(* expansions.  A fraction is a sequence of bits, most significant first.  *)
(***************************************************************************)
\* the precision of an IEEE-754 double, in bits
DoubleBits == 53

\* the number of zero bits that open the binary expansion of r / d, 0 < r < d
LeadZeros(r, d) ==
    LET s == BitLen(d) - BitLen(r)
    IN  IF WLeq(d, Shl(r, s)) THEN s - 1 ELSE s

\* the first n base-256 digits of r / d (r < d) and the remainder left after them
RECURSIVE FracDigits(_, _, _)
FracDigits(r, d, n) ==
    IF n = 0 THEN [digits |-> <<>>, rem |-> r]
    ELSE LET t    == WMul(r, 256)
             k    == QuotientDigit(t, d)
             rest == FracDigits(WSub(t, WMul(d, k)), d, n - 1)
         IN  [digits |-> <<k>> \o rest.digits, rem |-> rest.rem]

\* the bits of a sequence of base-256 digits, and back (8 bits to a digit)
BitsOf(digits) ==
    [i \in 1..(8 * Len(digits)) |->
        (digits[((i - 1) \div 8) + 1] \div Pow2(7 - ((i - 1) % 8))) % 2]

RECURSIVE BitsValue(_, _, _)
BitsValue(bits, from, n) ==
    IF n = 0 THEN 0
    ELSE 2 * BitsValue(bits, from, n - 1)
         + (IF from + n - 1 <= Len(bits) THEN bits[from + n - 1] ELSE 0)

DigitsOf(bits) ==
    [j \in 1..((Len(bits) + 7) \div 8) |-> BitsValue(bits, 8 * (j - 1) + 1, 8)]

\* bits + one unit in the last place: <<the new bits, the carry out>>
IncBits(bits) ==
    LET zeros == {i \in 1..Len(bits) : bits[i] = 0}
    IN  IF zeros = {} THEN <<[i \in 1..Len(bits) |-> 0], 1>>
        ELSE LET j == CHOOSE i \in zeros : \A k \in zeros : k <= i
             IN  <<[i \in 1..Len(bits) |->
                      IF i < j THEN bits[i] ELSE IF i = j THEN 1 ELSE 0], 0>>

\* the fraction digits * k: <<the fraction digits of the product, its integer part>>
RECURSIVE MulDigits(_, _)
MulDigits(digits, k) ==
    IF digits = <<>> THEN <<<<>>, 0>>
    ELSE LET t == MulDigits(Tail(digits), k)
             v == k * Head(digits) + t[2]
         IN  <<<<v % 256>> \o t[1], v \div 256>>

\* the number of fraction bits a double keeps of q + r / pfd (r < pfd)
KeptBits(q, r, pfd) ==
    IF BitLen(q) > 0 THEN DoubleBits - BitLen(q)
    ELSE IF r = WZero THEN 0
    ELSE LeadZeros(r, pfd) + DoubleBits

\* q and the fraction bits fb, plus the carry of inc = <<bits, carry>>
WithCarry(q, inc) == [ip |-> WAdd(q, WInt(inc[2])), fb |-> inc[1]]

\* q + 0.raw... rounded to F fraction bits, to nearest, ties to even; raw
\* holds more than F bits of the fraction, and inexact says whether nonzero
\* bits follow those of raw
RoundBits(q, raw, inexact, F) ==
    IF /\ F > 0
       /\ raw[F + 1] = 1
       /\ (inexact \/ raw[F] = 1 \/ \E i \in (F + 2)..Len(raw) : raw[i] = 1)
    THEN WithCarry(q, IncBits(SubSeq(raw, 1, F)))
    ELSE [ip |-> q, fb |-> SubSeq(raw, 1, F)]

\* the same, for the fraction given as digits d.digits and remainder d.rem
RoundDigits(q, d, F) == RoundBits(q, BitsOf(d.digits), d.rem # WZero, F)

\* q + r / pfd rounded to F fraction bits
RoundQuotient(q, r, pfd, F) ==
    RoundDigits(q, FracDigits(r, pfd, ((F + 1) \div 8) + 1), F)

\* qr[1] + qr[2] / pfd rounded to the precision of a double
RoundDouble(qr, pfd) ==
    RoundQuotient(qr[1], qr[2], pfd, KeptBits(qr[1], qr[2], pfd))

\* (double)vco / (double)pfd: the quotient rounded to nearest, ties to even, at
\* 53 significant bits, as integer part ip and fraction bits fb
DoubleDiv(vco, pfd) == RoundDouble(WDivMod(vco, pfd), pfd)

\* the position of the first 1 among the bits g, Len(g) + 1 if there is none
FirstOne(g) ==
    IF \A i \in 1..Len(g) : g[i] = 0 THEN Len(g) + 1
    ELSE CHOOSE i \in 1..Len(g) : g[i] = 1 /\ \A j \in 1..(i - 1) : g[j] = 0

\* the number of fraction bits a double keeps of N + 0.g
KeptOfProduct(N, g) ==
    IF BitLen(N) > 0 THEN DoubleBits - BitLen(N)
    ELSE FirstOne(g) - 1 + DoubleBits

\* N + 0.g rounded to K fraction bits becomes N + 1: all K bits kept are
\* ones and the next bit rounds up
CarriesAt(g, K) ==
    K < Len(g) /\ (\A i \in 1..K : g[i] = 1) /\ g[K + 1] = 1

\* (uint32_t)(N + 0.g rounded to the precision of a double)
TruncProduct(N, g) ==
    IF CarriesAt(g, KeptOfProduct(N, g)) THEN WAdd(N, WInt(1)) ELSE N

\* the same, for whole * mod + m[2] + 0.m[1]
FracProduct(m, whole, mod) ==
    TruncProduct(WAdd(WMul(whole, mod), WInt(m[2])), BitsOf(m[1]))

\* (uint32_t)((x - intValue) * mod) for the double x = ip + 0.fb: the
\* subtraction is exact, the product is rounded to 53 significant bits and the
\* conversion truncates.  The result as a number (it may exceed 32 bits).
DoubleFrac(x, intValue, mod) ==
    FracProduct(MulDigits(DigitsOf(x.fb), mod), WSub(x.ip, WInt(intValue)), mod)

(***************************************************************************)
(* Program constants.                                                      *)
(***************************************************************************)
MinFrequency == Hz(35, 0)

MaxFrequency == Hz(4400, 0)

\* a default frequency of 145 MHz in place of 100 MHz
DefaultFrequency_other == Hz(145, 0)

DefaultFrequency == Hz(100, 0)

NumRegisters == 6

WordBits == 32

\* the largest uint32_t and the largest uint16_t
MaxU32 == <<Half - 1, Half - 1>>

MaxU16 == Half - 1

(***************************************************************************)
(* The inputs the operations are called with.                              *)
(***************************************************************************)
\* what _refFreq holds before begin assigns it: every sketch declares the
\* object at namespace scope, whose storage is zeroed before the constructor
\* runs
UninitRefFreq == WZero

RefFreqs == {Hz(25, 0), Hz(10, 0)}

\* a frequency below the range and two in it, of different dividers
Requests == {Hz(34, 999999), Hz(68, 0), Hz(145, 0)}

\* the largest uint8_t
MaxU8 == 255

\* setPowerLevel is called with 0..MaxLevel and with the largest uint8_t
MaxLevel == 4

Levels == 0..MaxLevel \cup {MaxU8}

Phases == {1, 4096, MaxU16}

\* setFrequency is called with every frequency within Near Hz of a bound
\* of the range or of a breakpoint of the divider table
Near == 1

Around(f) == {WSub(f, WInt(d)) : d \in 0..Near} \cup {WAdd(f, WInt(d)) : d \in 0..Near}

DenseRequests ==
    UNION {Around(f) : f \in {MinFrequency, Hz(68, 750000), Hz(137, 500000),
                              Hz(275, 0), Hz(550, 0), Hz(1100, 0), Hz(2200, 0),
                              MaxFrequency}}
    \cup {Hz(68, 0), Hz(145, 0), Hz(2224, 999999), MaxU32}

(***************************************************************************)
(* calculateRFDivider                                                      *)
(***************************************************************************)
\* calculateRFDivider with its first breakpoint one hertz early
calculateRFDivider_early(f) ==
    IF WLess(f, Hz(68, 749999)) THEN 6
    ELSE IF WLess(f, Hz(137, 500000)) THEN 5
    ELSE IF WLess(f, Hz(275, 0)) THEN 4
    ELSE IF WLess(f, Hz(550, 0)) THEN 3
    ELSE IF WLess(f, Hz(1100, 0)) THEN 2
    ELSE IF WLess(f, Hz(2200, 0)) THEN 1
    ELSE 0

\* calculateRFDivider with <= for < at 1,100,000,000
calculateRFDivider_inclusive(f) ==
    IF WLess(f, Hz(68, 750000)) THEN 6
    ELSE IF WLess(f, Hz(137, 500000)) THEN 5
    ELSE IF WLess(f, Hz(275, 0)) THEN 4
    ELSE IF WLess(f, Hz(550, 0)) THEN 3
    ELSE IF WLeq(f, Hz(1100, 0)) THEN 2
    ELSE IF WLess(f, Hz(2200, 0)) THEN 1
    ELSE 0

\* calculateRFDivider with the results of its last two branches exchanged
calculateRFDivider_exchanged(f) ==
    IF WLess(f, Hz(68, 750000)) THEN 6
    ELSE IF WLess(f, Hz(137, 500000)) THEN 5
    ELSE IF WLess(f, Hz(275, 0)) THEN 4
    ELSE IF WLess(f, Hz(550, 0)) THEN 3
    ELSE IF WLess(f, Hz(1100, 0)) THEN 2
    ELSE IF WLess(f, Hz(2200, 0)) THEN 0
    ELSE 1

calculateRFDivider(f) ==
    IF WLess(f, Hz(68, 750000)) THEN 6
    ELSE IF WLess(f, Hz(137, 500000)) THEN 5
    ELSE IF WLess(f, Hz(275, 0)) THEN 4
    ELSE IF WLess(f, Hz(550, 0)) THEN 3
    ELSE IF WLess(f, Hz(1100, 0)) THEN 2
    ELSE IF WLess(f, Hz(2200, 0)) THEN 1
    ELSE 0

(***************************************************************************)
(* updateRegisters                                                         *)
(***************************************************************************)
\* uint8_t rfDivider = 1 << divider
RfDivider(divider) == Pow2(divider) % 256

\* uint32_t vcoFreq = _frequency * rfDivider: the product in 32 bits
VcoFreq(f) == U32(WMul(f, RfDivider(calculateRFDivider(f))))

RefDivider == 1

\* uint32_t pfdFreq = _refFreq / refDivider
PfdFreq(ref) == WDivMod(ref, WInt(RefDivider))[1]

Mod == 1000

BandSelectClockDiv == 200

\* uint16_t intValue = vcoFreq / pfdFreq.  A division by zero is undefined:
\* the quotient is then any of the values a build is known to produce.
IntValues(vco, pfd) ==
    IF pfd = WZero THEN {0, MaxU16} ELSE {U16(WDivMod(vco, pfd)[1])}

\* the values the conversion of the double t to uint32_t can give
ToU32(t) == IF WLeq(t, MaxU32) THEN {t} ELSE {WZero, MaxU32}

\* fracValue computed from the whole quotient, intValue not subtracted
FracValues_whole(vco, pfd, intValue) ==
    IF pfd = WZero THEN {WZero, MaxU32}
    ELSE ToU32(DoubleFrac(DoubleDiv(vco, pfd), 0, Mod))

\* uint32_t fracValue = (uint32_t)((((double)vcoFreq / (double)pfdFreq) - intValue) * mod).
\* The conversion of a double that does not fit 32 bits (an infinity after a
\* division by zero included) is undefined: any of the saturated values.
FracValues(vco, pfd, intValue) ==
    IF pfd = WZero THEN {WZero, MaxU32}
    ELSE ToU32(DoubleFrac(DoubleDiv(vco, pfd), intValue, Mod))

\* the pairs <<intValue, fracValue>> updateRegisters can compute
IntFrac(vco, pfd) ==
    UNION {{<<i, fv>> : fv \in FracValues(vco, pfd, i)} : i \in IntValues(vco, pfd)}

\* the pairs <<vcoFreq, pfdFreq>> of the frequencies the operations are called with
IntFracKeys ==
    {<<VcoFreq(U32(a)), PfdFreq(r)>> :
        a \in Requests \cup DenseRequests \cup {DefaultFrequency}, r \in RefFreqs}

\* IntFrac for these, computed once
IntFracTable == [k \in IntFracKeys |-> IntFrac(k[1], k[2])]

IntFracOf(vco, pfd) ==
    IF <<vco, pfd>> \in IntFracKeys THEN IntFracTable[<<vco, pfd>>]
    ELSE IntFrac(vco, pfd)

\* updateRegisters writing the default power level 3 into register 3
updateRegisters_defaultPower(f, pl, oe, ln, intValue, fracValue) ==
    LET divider == calculateRFDivider(f)
    IN  [i \in 0..(NumRegisters - 1) |->
          CASE i = 0 -> BitOr(BitOr(Shl(WInt(intValue), 15), Shl(fracValue, 3)), WInt(0))
            [] i = 1 -> BitOr(BitOr(BitOr(Shl(WInt(0), 15), Shl(WInt(1), 27)),
                                    Shl(WInt(Mod), 3)), WInt(1))
            [] i = 2 -> BitOr(BitOr(BitOr(IF ln THEN Shl(WInt(1), 21) ELSE Shl(WInt(1), 20),
                                          Shl(WInt(6), 9)),
                                    Shl(WInt(RefDivider), 14)), WInt(2))
            [] i = 3 -> BitOr(BitOr(Shl(WInt(3), 3), Shl(WInt(3), 10)), WInt(3))
            [] i = 4 -> BitOr(BitOr(BitOr(Shl(WInt(divider), 20),
                                          IF oe THEN WZero ELSE Shl(WInt(1), 5)),
                                    Shl(WInt(BandSelectClockDiv), 12)), WInt(4))
            [] i = 5 -> BitOr(Shl(WInt(1), 22), WInt(5))]

\* the register array updateRegisters leaves, for the values intValue and
\* fracValue it computed
updateRegisters(f, pl, oe, ln, intValue, fracValue) ==
    LET divider == calculateRFDivider(f)
    IN  [i \in 0..(NumRegisters - 1) |->
          CASE i = 0 -> BitOr(BitOr(Shl(WInt(intValue), 15), Shl(fracValue, 3)), WInt(0))
            [] i = 1 -> BitOr(BitOr(BitOr(Shl(WInt(0), 15), Shl(WInt(1), 27)),
                                    Shl(WInt(Mod), 3)), WInt(1))
            [] i = 2 -> BitOr(BitOr(BitOr(IF ln THEN Shl(WInt(1), 21) ELSE Shl(WInt(1), 20),
                                          Shl(WInt(6), 9)),
                                    Shl(WInt(RefDivider), 14)), WInt(2))
            [] i = 3 -> BitOr(BitOr(Shl(WInt(pl), 3), Shl(WInt(3), 10)), WInt(3))
            [] i = 4 -> BitOr(BitOr(BitOr(Shl(WInt(divider), 20),
                                          IF oe THEN WZero ELSE Shl(WInt(1), 5)),
                                    Shl(WInt(BandSelectClockDiv), 12)), WInt(4))
            [] i = 5 -> BitOr(Shl(WInt(1), 22), WInt(5))]

(***************************************************************************)
(* writeRegister: the digitalWrite calls of one transfer, in order, each   *)
(* a pair <<pin, level>>.                                                  *)
(***************************************************************************)
Level(b) == IF b = 1 THEN "HIGH" ELSE "LOW"

\* the loop body with the clock raised before the data line is set
ShiftBit_clockFirst(value, i) ==
    << <<"CLK", "HIGH">>, <<"DATA", Level(Bit(value, i))>>, <<"CLK", "LOW">> >>

\* the three calls of the loop body for bit i
ShiftBit(value, i) ==
    << <<"DATA", Level(Bit(value, i))>>, <<"CLK", "HIGH">>, <<"CLK", "LOW">> >>

\* the calls of four turns of the loop, for the bits i + 3 down to i of a
\* word whose value in these four bits is n
ShiftFour ==
    [n \in 0..15 |->
        ShiftBit(WInt(n), 3) \o ShiftBit(WInt(n), 2)
        \o ShiftBit(WInt(n), 1) \o ShiftBit(WInt(n), 0)]

\* the calls of the loop from bit i down to bit 0, four turns at a time
RECURSIVE ShiftFrom(_, _)
ShiftFrom(value, i) ==
    IF i < 0 THEN <<>>
    ELSE ShiftFour[Field(value, i - 3, 4)] \o ShiftFrom(value, i - 4)

\* writeRegister returning with the latch still low
writeRegister_noLatch(value) ==
    << <<"LE", "LOW">> >> \o ShiftFrom(value, WordBits - 1)

\* the calls of one transfer: the latch goes low, the loop runs for
\* i = 31 down to 0, the latch goes high
writeRegister(value) ==
    << <<"LE", "LOW">> >> \o ShiftFrom(value, WordBits - 1) \o << <<"LE", "HIGH">> >>

\* the calls of writeRegister for each of `words` in turn, from word j on
RECURSIVE TransmitFrom(_, _)
TransmitFrom(words, j) ==
    IF j > Len(words) THEN <<>>
    ELSE writeRegister(words[j]) \o TransmitFrom(words, j + 1)

Transmit(words) == TransmitFrom(words, 1)

\* the registers in ascending order of index
AllRegisters_ascending(regs) ==
    [k \in 1..NumRegisters |-> regs[k - 1]]

\* for (int i = 5; i >= 0; i--) writeRegister(_registers[i])
AllRegisters(regs) ==
    [k \in 1..NumRegisters |-> regs[NumRegisters - k]]

\* the level of each pin after the digitalWrite calls `events`: that of the
\* last call for the pin, if any
PinsAfter(levels, events) ==
    [p \in DOMAIN levels |->
        LET n == Len(events)
        IN  IF \A k \in 1..n : events[k][1] # p THEN levels[p]
            ELSE events[n - (CHOOSE d \in 0..(n - 1) :
                                /\ events[n - d][1] = p
                                /\ \A e \in 0..(d - 1) : events[n - e][1] # p)][2]]

(***************************************************************************)
(* The controller object and its operations.  An object is a record of    *)
(* the fields of the class; an operation yields the object it leaves, the  *)
(* words it hands to writeRegister, in order, and what it returns.         *)
(***************************************************************************)
Pins == {"LE", "CLK", "DATA", "CE"}

\* 0x00580000, 0x08008011, 0x00004E42, 0x000004B3, 0x00800024, 0x00580005
InitialRegisters ==
    [i \in 0..(NumRegisters - 1) |->
        CASE i = 0 -> <<88, 0>>
          [] i = 1 -> <<2048, 32785>>
          [] i = 2 -> <<0, 20034>>
          [] i = 3 -> <<0, 1203>>
          [] i = 4 -> <<128, 36>>
          [] i = 5 -> <<88, 5>>]

\* the object the constructor leaves; _refFreq is not assigned
Constructed(ref) ==
    [frequency |-> WZero, refFreq |-> ref, powerLevel |-> 3,
     outputEnabled |-> TRUE, lowNoiseMode |-> TRUE,
     registers |-> [i \in 0..(NumRegisters - 1) |-> WZero]]

\* what a call of setFrequency that stored f and computed regs leaves
Programmed(this, f, regs) ==
    [ret |-> "true",
     obj |-> [this EXCEPT !.frequency = f, !.registers = regs],
     words |-> AllRegisters(regs)]

\* bool setFrequency(uint32_t frequency): the outcomes of a call with the
\* argument arg, which the call converts to uint32_t
setFrequency(this, arg) ==
    IF WLess(U32(arg), MinFrequency) \/ WLess(MaxFrequency, U32(arg))
    THEN {[ret |-> "false", obj |-> this, words |-> <<>>]}
    ELSE {Programmed(this, U32(arg),
                     updateRegisters(U32(arg), this.powerLevel, this.outputEnabled,
                                     this.lowNoiseMode, v[1], v[2])) :
            v \in IntFracOf(VcoFreq(U32(arg)), PfdFreq(this.refFreq))}

\* setPowerLevel without the test of line 95
setPowerLevel_unclamped(this, arg) ==
    LET reg == BitOr(BitAnd(this.registers[3], BitNot(Shl(WInt(3), 3))),
                     Shl(WInt(arg), 3))
    IN  [obj |-> [this EXCEPT !.powerLevel = arg, !.registers[3] = reg],
         words |-> <<reg>>]

\* setPowerLevel without the clearing of bits 3 and 4
setPowerLevel_noClear(this, arg) ==
    LET level == IF arg > 3 THEN 3 ELSE arg
        reg   == BitOr(this.registers[3], Shl(WInt(level), 3))
    IN  [obj |-> [this EXCEPT !.powerLevel = level, !.registers[3] = reg],
         words |-> <<reg>>]

\* void setPowerLevel(uint8_t level)
setPowerLevel(this, arg) ==
    LET level == IF arg > 3 THEN 3 ELSE arg
        reg   == BitOr(BitAnd(this.registers[3], BitNot(Shl(WInt(3), 3))),
                       Shl(WInt(level), 3))
    IN  [obj |-> [this EXCEPT !.powerLevel = level, !.registers[3] = reg],
         words |-> <<reg>>]

\* enableOutput with bit 5 set when the output is enabled
enableOutput_direct(this, enable) ==
    LET reg == IF enable
               THEN BitOr(this.registers[4], Shl(WInt(1), 5))
               ELSE BitAnd(this.registers[4], BitNot(Shl(WInt(1), 5)))
    IN  [obj |-> [this EXCEPT !.outputEnabled = enable, !.registers[4] = reg],
         words |-> <<reg>>]

\* void enableOutput(bool enable)
enableOutput(this, enable) ==
    LET reg == IF enable
               THEN BitAnd(this.registers[4], BitNot(Shl(WInt(1), 5)))
               ELSE BitOr(this.registers[4], Shl(WInt(1), 5))
    IN  [obj |-> [this EXCEPT !.outputEnabled = enable, !.registers[4] = reg],
         words |-> <<reg>>]

\* setPhase without the clamp to 4095
setPhase_unclamped(this, arg) ==
    LET reg == BitOr(BitAnd(this.registers[1], BitNot(Shl(WInt(4095), 15))),
                     Shl(WInt(arg), 15))
    IN  [obj |-> [this EXCEPT !.registers[1] = reg], words |-> <<reg>>]

\* setPhase transmitting register 1 as it was before the update
setPhase_staleWord(this, arg) ==
    LET phase == IF arg > 4095 THEN 4095 ELSE arg
        reg   == BitOr(BitAnd(this.registers[1], BitNot(Shl(WInt(4095), 15))),
                       Shl(WInt(phase), 15))
    IN  [obj |-> [this EXCEPT !.registers[1] = reg], words |-> <<this.registers[1]>>]

\* void setPhase(uint16_t phase)
setPhase(this, arg) ==
    LET phase == IF arg > 4095 THEN 4095 ELSE arg
        reg   == BitOr(BitAnd(this.registers[1], BitNot(Shl(WInt(4095), 15))),
                       Shl(WInt(phase), 15))
    IN  [obj |-> [this EXCEPT !.registers[1] = reg], words |-> <<reg>>]

\* setLowNoiseMode that sets the bit of the chosen mode and leaves the
\* bit of the other mode as it was
setLowNoiseMode_setOnly(this, lowNoise) ==
    LET reg == IF lowNoise
               THEN BitOr(this.registers[2], Shl(WInt(1), 21))
               ELSE BitOr(this.registers[2], Shl(WInt(1), 20))
    IN  [obj |-> [this EXCEPT !.lowNoiseMode = lowNoise, !.registers[2] = reg],
         words |-> <<reg>>]

\* void setLowNoiseMode(bool lowNoise)
setLowNoiseMode(this, lowNoise) ==
    LET reg == IF lowNoise
               THEN BitAnd(BitOr(this.registers[2], Shl(WInt(1), 21)),
                           BitNot(Shl(WInt(1), 20)))
               ELSE BitOr(BitAnd(this.registers[2], BitNot(Shl(WInt(1), 21))),
                          Shl(WInt(1), 20))
    IN  [obj |-> [this EXCEPT !.lowNoiseMode = lowNoise, !.registers[2] = reg],
         words |-> <<reg>>]

\* the digitalWrite calls of begin that set the initial pin states
InitialPinStates ==
    << <<"LE", "HIGH">>, <<"CLK", "LOW">>, <<"DATA", "LOW">>, <<"CE", "HIGH">> >>

\* begin calling setFrequency before it writes the baseline registers
begin_updateFirst(this, ref) ==
    LET start == [this EXCEPT !.refFreq = ref, !.registers = InitialRegisters]
    IN  {[obj |-> r.obj, words |-> r.words \o AllRegisters(InitialRegisters)] :
            r \in setFrequency(start, DefaultFrequency)}

\* void begin(uint32_t refFreq): the initial registers are written, then
\* setFrequency(100000000) runs
begin(this, ref) ==
    LET start == [this EXCEPT !.refFreq = ref, !.registers = InitialRegisters]
    IN  {[obj |-> r.obj, words |-> AllRegisters(InitialRegisters) \o r.words] :
            r \in setFrequency(start, DefaultFrequency)}

\* int8_t dBm = -4 + (powerLevel * 3), as the sketch reports a level
dBm(level) == -4 + (level * 3)

(***************************************************************************)
(* State.                                                                  *)
(***************************************************************************)
VARIABLES
    frequency,      \* _frequency
    refFreq,        \* _refFreq
    powerLevel,     \* _powerLevel
    outputEnabled,  \* _outputEnabled
    lowNoiseMode,   \* _lowNoiseMode
    registers,      \* _registers
    pinsOutput,     \* pinMode(.., OUTPUT) has been called for the four pins
    pinLevel,       \* per pin, the level last written to it, "Z" before any
    lastOp,         \* the public operation that ran last
    lastArg,        \* its argument, as the caller wrote it
    lastRet,        \* what it returned
    setup,          \* the digitalWrite calls it made before its first transfer
    sent            \* the words it handed to writeRegister, in order

object == <<frequency, refFreq, powerLevel, outputEnabled, lowNoiseMode, registers>>

vars == <<frequency, refFreq, powerLevel, outputEnabled, lowNoiseMode, registers,
          pinsOutput, pinLevel, lastOp, lastArg, lastRet, setup, sent>>

This ==
    [frequency |-> frequency, refFreq |-> refFreq, powerLevel |-> powerLevel,
     outputEnabled |-> outputEnabled, lowNoiseMode |-> lowNoiseMode,
     registers |-> registers]

Becomes(obj) ==
    /\ frequency' = obj.frequency
    /\ refFreq' = obj.refFreq
    /\ powerLevel' = obj.powerLevel
    /\ outputEnabled' = obj.outputEnabled
    /\ lowNoiseMode' = obj.lowNoiseMode
    /\ registers' = obj.registers

\* uint32_t getFrequency()
getFrequency == frequency

\* the digitalWrite calls of the operation that ran last, in order
bus == setup \o Transmit(sent)

(***************************************************************************)
(* Actions: one per public operation, each the whole call.                 *)
(***************************************************************************)
Bool(b) == WInt(IF b THEN 1 ELSE 0)

Init ==
    /\ frequency = Constructed(UninitRefFreq).frequency
    /\ refFreq = Constructed(UninitRefFreq).refFreq
    /\ powerLevel = Constructed(UninitRefFreq).powerLevel
    /\ outputEnabled = Constructed(UninitRefFreq).outputEnabled
    /\ lowNoiseMode = Constructed(UninitRefFreq).lowNoiseMode
    /\ registers = Constructed(UninitRefFreq).registers
    /\ pinsOutput = FALSE
    /\ pinLevel = [p \in Pins |-> "Z"]
    /\ lastOp = "construct"
    /\ lastArg = WZero
    /\ lastRet = "void"
    /\ setup = <<>>
    /\ sent = <<>>

\* the digitalWrite calls `before`, then the transfers of `words`
Drive(before, words) ==
    /\ setup' = before
    /\ sent' = words
    /\ pinLevel' = PinsAfter(pinLevel, before \o Transmit(words))

Begin(ref) ==
    \E r \in begin(This, ref) :
        /\ Becomes(r.obj)
        /\ pinsOutput' = TRUE
        /\ Drive(InitialPinStates, r.words)
        /\ lastOp' = "begin"
        /\ lastArg' = ref
        /\ lastRet' = "void"

SetFrequency(arg) ==
    \E r \in setFrequency(This, arg) :
        /\ Becomes(r.obj)
        /\ Drive(<<>>, r.words)
        /\ lastOp' = "setFrequency"
        /\ lastArg' = arg
        /\ lastRet' = r.ret
        /\ UNCHANGED pinsOutput

SetPowerLevel(level) ==
    /\ Becomes(setPowerLevel(This, level).obj)
    /\ Drive(<<>>, setPowerLevel(This, level).words)
    /\ lastOp' = "setPowerLevel"
    /\ lastArg' = WInt(level)
    /\ lastRet' = "void"
    /\ UNCHANGED pinsOutput

EnableOutput(enable) ==
    /\ Becomes(enableOutput(This, enable).obj)
    /\ Drive(<<>>, enableOutput(This, enable).words)
    /\ lastOp' = "enableOutput"
    /\ lastArg' = Bool(enable)
    /\ lastRet' = "void"
    /\ UNCHANGED pinsOutput

SetPhase(phase) ==
    /\ Becomes(setPhase(This, phase).obj)
    /\ Drive(<<>>, setPhase(This, phase).words)
    /\ lastOp' = "setPhase"
    /\ lastArg' = WInt(phase)
    /\ lastRet' = "void"
    /\ UNCHANGED pinsOutput

SetLowNoiseMode(lowNoise) ==
    /\ Becomes(setLowNoiseMode(This, lowNoise).obj)
    /\ Drive(<<>>, setLowNoiseMode(This, lowNoise).words)
    /\ lastOp' = "setLowNoiseMode"
    /\ lastArg' = Bool(lowNoise)
    /\ lastRet' = "void"
    /\ UNCHANGED pinsOutput

\* isLocked reporting no lock until a frequency has been programmed
IsLocked_afterProgramming ==
    /\ lastOp' = "isLocked"
    /\ lastArg' = WZero
    /\ lastRet' = (IF frequency = WZero THEN "false" ELSE "true")
    /\ setup' = <<>>
    /\ sent' = <<>>
    /\ UNCHANGED <<object, pinsOutput, pinLevel>>

\* bool isLocked()
IsLocked ==
    /\ lastOp' = "isLocked"
    /\ lastArg' = WZero
    /\ lastRet' = "true"
    /\ setup' = <<>>
    /\ sent' = <<>>
    /\ UNCHANGED <<object, pinsOutput, pinLevel>>

\* every public operation, in any order
Next ==
    \/ Begin(Hz(25, 0))
    \/ \E arg \in Requests : SetFrequency(arg)
    \/ \E level \in Levels : SetPowerLevel(level)
    \/ \E enable \in BOOLEAN : EnableOutput(enable)
    \/ \E phase \in Phases : SetPhase(phase)
    \/ \E lowNoise \in BOOLEAN : SetLowNoiseMode(lowNoise)
    \/ IsLocked

Spec == Init /\ [][Next]_vars

\* begin and setFrequency alone, over the frequencies where the code branches
NextFreq ==
    \/ \E ref \in RefFreqs : Begin(ref)
    \/ \E arg \in DenseRequests : SetFrequency(arg)

SpecFreq == Init /\ [][NextFreq]_vars

(***************************************************************************)
(* Properties.                                                             *)
(***************************************************************************)
\* the last operation was a setFrequency call that returned true
Succeeded == lastOp = "setFrequency" /\ lastRet = "true"

\* a is a frequency of the documented range
InRange(a) == WLeq(Hz(35, 0), a) /\ WLeq(a, Hz(4400, 0))

\* C1: for every frequency f in [35,000,000, 4,400,000,000], setFrequency(f)
\* returns true and getFrequency() then returns f, from any prior state.
C1_AcceptsDocumentedRange ==
    (lastOp = "setFrequency" /\ InRange(lastArg))
        => (lastRet = "true" /\ getFrequency = lastArg)

\* C2: for every frequency f below 35,000,000 or above 4,400,000,000,
\* setFrequency(f) returns false and changes nothing: the stored frequency,
\* the six register words and every other field are as before the call, and
\* no word is transmitted (no latch, clock or data line changes).
C2_RejectsOutOfRange ==
    [][(lastOp' = "setFrequency" /\ ~InRange(lastArg'))
         => /\ lastRet' = "false"
            /\ UNCHANGED <<object, pinsOutput, pinLevel>>
            /\ sent' = <<>>
            /\ bus' = <<>>]_vars

\* the operations that write a register field
Setters == {"setFrequency", "setPowerLevel", "enableOutput", "setPhase", "setLowNoiseMode"}

\* the low three bits of the word w
Address(w) == w[2] % 8

\* C3: in every state reached from construction by any sequence of public
\* operations, after each setter call registers[i] & 0b111 = i for every i
\* in 0..5.
C3_AddressBitsKept ==
    lastOp \in Setters => \A i \in 0..5 : Address(registers[i]) = i

\* the divider exponent held in register 4 bits 20-22
DividerField == Field(registers[4], 20, 3)

\* the product f * 2^d as a number, without any wrap
ExactVco(f, d) == WMul(f, Pow2(d))

\* C4: for every frequency f accepted by setFrequency, the VCO frequency
\* f * 2^d, d being the divider exponent chosen for f, lies in
\* [2,200,000,000, 4,400,000,000].  f is the value the call received and
\* stored, d the exponent it wrote to register 4.
C4_VcoInBand ==
    getFrequency # WZero
        => /\ WLeq(Hz(2200, 0), ExactVco(getFrequency, DividerField))
           /\ WLeq(ExactVco(getFrequency, DividerField), Hz(4400, 0))

\* setFrequency accepted the breakpoint 68,750,000 and chose the exponent 5:
\* the VCO frequency is 2,200,000,000, the lower end of the band
C4_Witness ==
    /\ Succeeded
    /\ getFrequency = Hz(68, 750000)
    /\ DividerField = 5
    /\ ExactVco(getFrequency, DividerField) = Hz(2200, 0)

\* the exponent the divider table gives for f
TableExponent(f) ==
    CASE WLess(f, Hz(68, 750000))                                 -> 6
      [] WLeq(Hz(68, 750000), f)  /\ WLess(f, Hz(137, 500000))    -> 5
      [] WLeq(Hz(137, 500000), f) /\ WLess(f, Hz(275, 0))         -> 4
      [] WLeq(Hz(275, 0), f)      /\ WLess(f, Hz(550, 0))         -> 3
      [] WLeq(Hz(550, 0), f)      /\ WLess(f, Hz(1100, 0))        -> 2
      [] WLeq(Hz(1100, 0), f)     /\ WLess(f, Hz(2200, 0))        -> 1
      [] WLeq(Hz(2200, 0), f)                                     -> 0

\* C5: the divider exponent chosen for a valid frequency f is 6 below
\* 68,750,000, 5 from there to below 137,500,000, 4 to below 275,000,000, 3 to
\* below 550,000,000, 2 to below 1,100,000,000, 1 to below 2,200,000,000 and 0
\* from 2,200,000,000 on (a breakpoint takes the lower exponent), and a
\* successful setFrequency writes it into register 4 bits 20-22.
C5_DividerTable ==
    Succeeded
        => /\ DividerField = TableExponent(getFrequency)
           /\ Field(sent[2], 20, 3) = TableExponent(getFrequency)

\* setFrequency accepted a breakpoint and register 4, as stored and as
\* transmitted, holds the lower of the two exponents that meet there
C5_Witness ==
    /\ Succeeded
    /\ getFrequency = Hz(1100, 0)
    /\ DividerField = 1
    /\ Field(sent[2], 20, 3) = 1

\* the frequencies among those requested that setFrequency accepts
ValidRequests == {f \in {U32(a) : a \in DenseRequests} : InRange(f)}

\* C6: divider selection is monotonic: for any two valid frequencies
\* f1 < f2, the exponent chosen for f1 is greater than or equal to the one
\* chosen for f2.  One of the two is the frequency the last call accepted,
\* with the exponent it wrote; the other is any valid frequency.
C6_DividerMonotonic ==
    getFrequency # WZero
        => \A g \in ValidRequests :
              /\ WLess(g, getFrequency) => calculateRFDivider(g) >= DividerField
              /\ WLess(getFrequency, g) => DividerField >= calculateRFDivider(g)

\* an accepted frequency with valid frequencies of a greater exponent below
\* it and of a smaller exponent above it
C6_Witness ==
    /\ Succeeded
    /\ \E g \in ValidRequests :
          WLess(g, getFrequency) /\ calculateRFDivider(g) > DividerField
    /\ \E g \in ValidRequests :
          WLess(getFrequency, g) /\ DividerField > calculateRFDivider(g)

\* floor(vcoFreq / pfdFreq) for vcoFreq = hz * 2^d and pfdFreq = ref / 1
ExactInt(hz, d, ref) == WDivMod(ExactVco(hz, d), ref)[1]

\* (vcoFreq / pfdFreq - INT) * 1000 rounded to nearest: with r the remainder
\* of vcoFreq by pfdFreq, floor((2000 * r + pfdFreq) / (2 * pfdFreq))
RoundedFrac(hz, d, ref) ==
    LET r == WDivMod(ExactVco(hz, d), ref)[2]
    IN  WDivMod(WAdd(WMul(WMul(r, 1000), 2), ref), WMul(ref, 2))[1]

\* C7: after a successful setFrequency(hz), register 0 carries
\* INT = floor(vcoFreq / pfdFreq) in bits 15-30 and
\* FRAC = round((vcoFreq / pfdFreq - INT) * 1000), rounded to nearest, in
\* bits 3-14, where vcoFreq = hz * 2^d and pfdFreq = referenceFrequencyHz / 1.
C7_IntAndRoundedFrac ==
    (Succeeded /\ refFreq # WZero)
        => /\ WInt(Field(registers[0], 15, 16)) = ExactInt(getFrequency, DividerField, refFreq)
           /\ WInt(Field(registers[0], 3, 12)) = RoundedFrac(getFrequency, DividerField, refFreq)

\* C8: a successful setFrequency transmits exactly six 32-bit words, each
\* exactly once and with no retry: the freshly recomputed values of registers
\* 5, 4, 3, 2, 1, 0 in that descending order, the first word being sent only
\* after all six registers have been recomputed.
C8_SixWordsDescending ==
    Succeeded
        => /\ Len(sent) = 6
           /\ sent = <<registers[5], registers[4], registers[3],
                       registers[2], registers[1], registers[0]>>
           /\ \A k \in 1..6 : IsU32(sent[k]) /\ Address(sent[k]) = 6 - k

\* a successful setFrequency on an object whose registers begin never
\* loaded, after the power level was changed: all six words are new
C8_Witness ==
    /\ Succeeded
    /\ ~pinsOutput
    /\ powerLevel = 1
    /\ Len(sent) = 6
    /\ sent[3] = registers[3]
    /\ Field(sent[3], 3, 2) = 1

\* the number of digitalWrite calls of one transfer
TransferLen == 3 * 32 + 2

\* the calls of the j-th transfer of the last operation
Transfer(j) ==
    SubSeq(bus, Len(setup) + TransferLen * (j - 1) + 1, Len(setup) + TransferLen * j)

\* bit i of the word w
WordBit(w, i) == IF i >= 16 THEN (w[1] \div Pow2(i - 16)) % 2 ELSE (w[2] \div Pow2(i)) % 2

\* the level the data line has at call k of the transfer t: that of the
\* last call before k that set it
DataAt(t, k) ==
    t[CHOOSE j \in 1..(k - 1) :
          t[j][1] = "DATA" /\ \A m \in (j + 1)..(k - 1) : t[m][1] # "DATA"][2]

\* the clock is high when call k of the transfer t is made
ClockHighAt(t, k) ==
    \E j \in 1..(k - 1) :
        t[j] = <<"CLK", "HIGH">> /\ \A m \in (j + 1)..(k - 1) : t[m][1] # "CLK"

\* the positions of the rising clock edges of the transfer t, in order
Rising(t) == {k \in 1..Len(t) : t[k] = <<"CLK", "HIGH">>}

\* C9: each register write drives the bus through exactly this sequence:
\* latch low; then for bit 31 down to bit 0, set the data line to that bit,
\* raise the clock, lower the clock; then latch high.  The data line never
\* changes while the clock is high, so the 32 data values sampled on the
\* rising clock edges, read MSB-first, equal the word being written.
C9_TransferSequence ==
    /\ Len(bus) = Len(setup) + TransferLen * Len(sent)
    /\ \A j \in 1..Len(sent) :
          LET t == Transfer(j)
              w == sent[j]
          IN  /\ t[1] = <<"LE", "LOW">>
              /\ \A n \in 0..31 :
                    /\ t[3 * n + 2] = <<"DATA", IF WordBit(w, 31 - n) = 1 THEN "HIGH" ELSE "LOW">>
                    /\ t[3 * n + 3] = <<"CLK", "HIGH">>
                    /\ t[3 * n + 4] = <<"CLK", "LOW">>
              /\ t[TransferLen] = <<"LE", "HIGH">>
              /\ \A k \in 1..TransferLen : t[k][1] = "DATA" => ~ClockHighAt(t, k)
              /\ Cardinality(Rising(t)) = 32
              /\ \A k \in Rising(t) :
                    DataAt(t, k) = (IF WordBit(w, 31 - Cardinality({m \in Rising(t) : m < k})) = 1
                                    THEN "HIGH" ELSE "LOW")

\* a transfer of a word that has ones and zeros: the data line is set high
\* for some bits and low for others
C9_Witness ==
    /\ lastOp = "setPhase"
    /\ Len(sent) = 1
    /\ Len(bus) = TransferLen
    /\ \E k \in 1..TransferLen : bus[k] = <<"DATA", "HIGH">>
    /\ \E k \in 1..TransferLen : bus[k] = <<"DATA", "LOW">>
    /\ pinLevel["LE"] = "HIGH"

\* the index of the register whose value is the k-th word an operation hands
\* to writeRegister
SourceRegister(op, k) ==
    CASE op = "setPowerLevel"   -> 3
      [] op = "enableOutput"    -> 4
      [] op = "setPhase"        -> 1
      [] op = "setLowNoiseMode" -> 2
      [] OTHER                  -> 5 - ((k - 1) % 6)

\* C10: every word shifted onto the bus by any public operation, in any
\* state reachable after construction, has its low three bits equal to the
\* index of the register it was taken from.
C10_WordsCarryTheirAddress ==
    \A k \in 1..Len(sent) : Address(sent[k]) = SourceRegister(lastOp, k)

\* the fields of the object obj, in the order of `object`
Fields(obj) ==
    <<obj.frequency, obj.refFreq, obj.powerLevel, obj.outputEnabled,
      obj.lowNoiseMode, obj.registers>>

\* C11: setPowerLevel saturates: for every level in 4..255,
\* setPowerLevel(level) leaves the same state and transmits the same word as
\* setPowerLevel(3) from the same prior state; for every level in 0..3,
\* register 3 bits 3-4 equal level afterwards (level 0 is -4 dBm, level 3 is
\* +5 dBm, 3 dBm a step), and the stored power level always stays in [0,3].
C11_PowerSaturates ==
    [][/\ powerLevel \in 0..3
       /\ powerLevel' \in 0..3
       /\ lastOp' = "setPowerLevel"
            => /\ lastArg'[2] \in 4..255
                    => /\ object' = Fields(setPowerLevel(This, 3).obj)
                       /\ sent' = setPowerLevel(This, 3).words
                       /\ UNCHANGED pinsOutput
               /\ lastArg'[2] \in 0..3
                    => /\ Field(registers'[3], 3, 2) = lastArg'[2]
                       /\ powerLevel' = lastArg'[2]
                       /\ dBm(powerLevel') = dBm(0) + 3 * lastArg'[2]
               /\ dBm(0) = -4 /\ dBm(3) = 5]_vars

\* setPowerLevel(255) has run on an object whose level was not 3: the level
\* stored and the field of register 3 are 3
C11_Witness ==
    /\ lastOp = "setPowerLevel"
    /\ lastArg = WInt(255)
    /\ powerLevel = 3
    /\ Field(registers[3], 3, 2) = 3
    /\ sent = <<registers[3]>>
    /\ frequency = Hz(145, 0)

\* the word w with bit 5 cleared
WithoutBit5(w) == <<w[1], w[2] - 32 * WordBit(w, 5)>>

\* C12: after enableOutput(e), register 4 bit 5 is set iff e is false.
\* enableOutput(false) followed by enableOutput(true) restores register 4 to
\* its value with bit 5 cleared, and repeating an identical enableOutput call
\* leaves register 4 unchanged.
C12_OutputBitInverted ==
    [][lastOp' = "enableOutput"
         => /\ WordBit(registers'[4], 5) = 1 - lastArg'[2]
            /\ WithoutBit5(registers'[4]) = WithoutBit5(registers[4])
            /\ (lastOp = "enableOutput" /\ lastArg = Bool(FALSE) /\ lastArg' = Bool(TRUE))
                  => registers'[4] = WithoutBit5(registers[4])
            /\ (lastOp = "enableOutput" /\ lastArg' = lastArg)
                  => registers'[4] = registers[4]]_vars

\* enableOutput(false) has run on a programmed object: bit 5 of register 4
\* is set, beside the divider and the band select divider
C12_Witness ==
    /\ lastOp = "enableOutput"
    /\ lastArg = Bool(FALSE)
    /\ ~outputEnabled
    /\ WordBit(registers[4], 5) = 1
    /\ Field(registers[4], 20, 3) = 4

\* bits 15 to 26 of the word w, bits 0 to 14, and bits 27 to 31
PhaseField(w) == (w[1] % 2048) * 2 + (w[2] \div 32768)

BelowPhase(w) == w[2] % 32768

AbovePhase(w) == w[1] \div 2048

\* C13: for every 16-bit argument, after setPhase(phase) bits 15 to 26 of
\* register 1 equal min(phase, 4095): a value above 4095 is clamped
\* silently, and no bit outside 15 to 26 receives any part of the phase.
C13_PhaseClamped ==
    [][lastOp' = "setPhase"
         => /\ lastArg'[1] = 0
            /\ lastArg'[2] \in 0..MaxU16
            /\ PhaseField(registers'[1]) =
                  (IF lastArg'[2] < 4095 THEN lastArg'[2] ELSE 4095)
            /\ BelowPhase(registers'[1]) = BelowPhase(registers[1])
            /\ AbovePhase(registers'[1]) = AbovePhase(registers[1])]_vars

\* setPhase(65535) has run on a programmed object: the field holds 4095
\* and the bits beside it still hold the prescaler and the modulus
C13_Witness ==
    /\ lastOp = "setPhase"
    /\ lastArg = WInt(MaxU16)
    /\ PhaseField(registers[1]) = 4095
    /\ AbovePhase(registers[1]) = 1
    /\ BelowPhase(registers[1]) = 1000 * 8 + 1

\* C14: after setLowNoiseMode(b), from any prior content of register 2,
\* exactly one mode bit is set: bit 21 set and bit 20 clear when b is true,
\* bit 20 set and bit 21 clear when b is false.
C14_OneModeBitAfterSetter ==
    lastOp = "setLowNoiseMode"
        => /\ WordBit(registers[2], 21) = lastArg[2]
           /\ WordBit(registers[2], 20) = 1 - lastArg[2]
           /\ WordBit(registers[2], 21) + WordBit(registers[2], 20) = 1

\* setLowNoiseMode(false) has run on a register 2 that begin programmed
\* with bit 21 set: bit 20 is set and bit 21 is clear
C14_Witness ==
    /\ lastOp = "setLowNoiseMode"
    /\ lastArg = Bool(FALSE)
    /\ pinsOutput
    /\ ~lowNoiseMode
    /\ WordBit(registers[2], 20) = 1
    /\ WordBit(registers[2], 21) = 0
    /\ Field(registers[2], 9, 3) = 6

\* the number of mode bits (bit 21, low noise; bit 20, low spur) set in w
ModeBits(w) == WordBit(w, 21) + WordBit(w, 20)

\* C15: exactly one of the low-noise bit (register 2 bit 21) and the
\* low-spur bit (register 2 bit 20) is set in every reachable state of the
\* register array and in every register 2 word transmitted to the chip,
\* the baseline words written by begin included.
C15_ExactlyOneModeBit ==
    /\ ModeBits(registers[2]) = 1
    /\ \A k \in 1..Len(sent) :
          SourceRegister(lastOp, k) = 2 => ModeBits(sent[k]) = 1

\* the register array encodes the three stored settings
SettingsEncoded ==
    /\ Field(registers[3], 3, 2) = powerLevel
    /\ WordBit(registers[4], 5) = (IF outputEnabled THEN 0 ELSE 1)
    /\ WordBit(registers[2], 21) = (IF lowNoiseMode THEN 1 ELSE 0)
    /\ WordBit(registers[2], 20) = (IF lowNoiseMode THEN 0 ELSE 1)

\* C16: in every state reached after begin by any sequence of setter
\* calls, register 3 bits 3 to 4 equal powerLevel, register 4 bit 5 equals
\* NOT outputEnabled, and register 2 bits 21 and 20 equal lowNoiseMode and
\* NOT lowNoiseMode; the settings survive every later successful
\* setFrequency.
C16_SettingsEncoded ==
    [][pinsOutput'
         => /\ SettingsEncoded'
            /\ (pinsOutput /\ lastOp' = "setFrequency" /\ lastRet' = "true")
                  => UNCHANGED <<powerLevel, outputEnabled, lowNoiseMode>>]_vars

\* a successful setFrequency after begin on an object whose three settings
\* all differ from the constructor's defaults, which register 3, 4 and 2
\* still encode
C16_Witness ==
    /\ pinsOutput
    /\ lastOp = "setFrequency"
    /\ lastRet = "true"
    /\ powerLevel = 1
    /\ ~outputEnabled
    /\ ~lowNoiseMode
    /\ SettingsEncoded

\* C17: a phase set by setPhase stays encoded in register 1 bits 15 to 26
\* after any subsequent successful setFrequency: a successful setFrequency
\* leaves the phase field of the register array as it was.
C17_PhaseSurvivesSetFrequency ==
    [][(lastOp' = "setFrequency" /\ lastRet' = "true")
          => PhaseField(registers'[1]) = PhaseField(registers[1])]_vars

\* the four setters of a single field
FieldSetters == {"setPowerLevel", "enableOutput", "setPhase", "setLowNoiseMode"}

\* C18: each of setPowerLevel, enableOutput, setPhase and setLowNoiseMode
\* transmits exactly one 32-bit word, equal to the updated value of its own
\* register (3, 4, 1, 2), and no word of any other register.
C18_OneWordOfOwnRegister ==
    lastOp \in FieldSetters
        => /\ sent = <<registers[SourceRegister(lastOp, 1)]>>
           /\ IsU32(sent[1])
           /\ Len(Transmit(sent)) = TransferLen

\* setPhase(1) has run on a programmed object and sent the one word that
\* register 1 now holds, phase 1 included
C18_Witness ==
    /\ lastOp = "setPhase"
    /\ lastArg = WInt(1)
    /\ pinsOutput
    /\ Len(sent) = 1
    /\ PhaseField(sent[1]) = 1
    /\ Address(sent[1]) = 1

\* the lowest bit and the width of the field the setter op edits
FieldLow(op) ==
    CASE op = "setPowerLevel"   -> 3
      [] op = "enableOutput"    -> 5
      [] op = "setPhase"        -> 15
      [] op = "setLowNoiseMode" -> 20

FieldWidth(op) ==
    CASE op = "setPowerLevel"   -> 2
      [] op = "enableOutput"    -> 1
      [] op = "setPhase"        -> 12
      [] op = "setLowNoiseMode" -> 2

\* the value the field holds after the setter op has run with argument arg
FieldValue(op, arg) ==
    CASE op = "setPowerLevel"   -> IF arg < 3 THEN arg ELSE 3
      [] op = "enableOutput"    -> 1 - arg
      [] op = "setPhase"        -> IF arg < 4095 THEN arg ELSE 4095
      [] op = "setLowNoiseMode" -> IF arg = 1 THEN 2 ELSE 1

\* the bits of w below bit low, and the bits of w from bit top upwards
BitsBelow(w, low) ==
    IF low < 16 THEN <<0, w[2] % Pow2(low)>> ELSE <<w[1] % Pow2(low - 16), w[2]>>

BitsFrom(w, top) ==
    IF top < 16 THEN <<w[1], w[2] \div Pow2(top)>> ELSE <<0, w[1] \div Pow2(top - 16)>>

\* bits low to top - 1 of w, as a number
BitsBetween(w, low, top) ==
    IF top <= 16 THEN (w[2] \div Pow2(low)) % Pow2(top - low)
    ELSE IF low >= 16 THEN (w[1] \div Pow2(low - 16)) % Pow2(top - low)
    ELSE (w[1] % Pow2(top - 16)) * Pow2(16 - low) + (w[2] \div Pow2(low))

\* C19: each single-field setter changes only its own bit-field (bits 3 to
\* 4 of register 3, bit 5 of register 4, bits 15 to 26 of register 1, bits
\* 20 to 21 of register 2): the other bits of that register, the other five
\* registers, the stored output frequency and the reference frequency are
\* unchanged, and the previous value of the field leaves no bits behind.
C19_OnlyOwnField ==
    [][lastOp' \in FieldSetters
         => LET own  == SourceRegister(lastOp', 1)
                low  == FieldLow(lastOp')
                top  == FieldLow(lastOp') + FieldWidth(lastOp')
            IN  /\ BitsBelow(registers'[own], low) = BitsBelow(registers[own], low)
                /\ BitsFrom(registers'[own], top) = BitsFrom(registers[own], top)
                /\ BitsBetween(registers'[own], low, top)
                      = FieldValue(lastOp', lastArg'[2])
                /\ \A i \in 0..(NumRegisters - 1) :
                      i # own => registers'[i] = registers[i]
                /\ UNCHANGED <<frequency, refFreq>>]_vars

\* setPowerLevel(1) has run on a programmed object: register 3 holds level
\* 1 between the charge pump bits and the address
C19_Witness ==
    /\ lastOp = "setPowerLevel"
    /\ lastArg = WInt(1)
    /\ BitsBetween(registers[3], 3, 5) = 1
    /\ BitsFrom(registers[3], 5) = <<0, 3 * 32>>
    /\ BitsBelow(registers[3], 3) = <<0, 3>>
    /\ frequency = Hz(145, 0)
    /\ refFreq = Hz(25, 0)

\* the register array encodes 100 MHz against a 25 MHz reference and the
\* constructor's defaults, and getFrequency returns 100 MHz
DefaultsEncoded ==
    /\ getFrequency = Hz(100, 0)
    /\ BitsBetween(registers[4], 20, 23) = 5
    /\ BitsBetween(registers[0], 15, 31) = 128
    /\ BitsBetween(registers[0], 3, 15) = 0
    /\ BitsBetween(registers[3], 3, 5) = 3
    /\ WordBit(registers[4], 5) = 0
    /\ WordBit(registers[2], 21) = 1
    /\ WordBit(registers[2], 20) = 0
    /\ PhaseField(registers[1]) = 0

\* C20 as stated: after begin(25000000) returns, whatever was called before
\* it, getFrequency is 100000000 and the register array encodes that
\* frequency and the defaults (divider 5, INT 128, FRAC 0, power 3, output
\* enabled, low noise, phase 0).
C20_DefaultsAfterAnyBegin ==
    (lastOp = "begin" /\ lastArg = Hz(25, 0)) => DefaultsEncoded

\* C20, for a begin(25000000) called while the stored settings are the
\* constructor's defaults (power level 3, output enabled, low noise): when
\* it returns, getFrequency is 100000000 and the register array encodes
\* that frequency and the defaults.
C20_DefaultsAfterBegin ==
    [][(/\ lastOp' = "begin"
        /\ lastArg' = Hz(25, 0)
        /\ powerLevel = 3
        /\ outputEnabled
        /\ lowNoiseMode) => DefaultsEncoded']_vars

\* begin(25000000) has returned on an object holding the constructor's
\* defaults, and its last six words are the register array
C20_Witness ==
    /\ lastOp = "begin"
    /\ lastArg = Hz(25, 0)
    /\ powerLevel = 3
    /\ outputEnabled
    /\ lowNoiseMode
    /\ Len(sent) = 2 * NumRegisters
    /\ sent[2 * NumRegisters] = registers[0]
    /\ registers[0] = <<64, 0>>

\* C21: in every reachable state getFrequency() returns 0 if no setFrequency
\* call has succeeded yet, and otherwise the argument of the most recent
\* successful setFrequency call (the call begin makes with 100000000
\* included), which lies in [35,000,000, 4,400,000,000]; no other operation
\* (setPowerLevel, enableOutput, setPhase, setLowNoiseMode, isLocked, a
\* failed setFrequency) changes it.
C21_FrequencyIsLastAccepted ==
    [][/\ lastOp = "construct" => getFrequency = WZero
       /\ CASE lastOp' = "setFrequency" /\ lastRet' = "true"
                 -> getFrequency' = lastArg' /\ InRange(lastArg')
            [] lastOp' = "begin"
                 -> getFrequency' = DefaultFrequency /\ InRange(DefaultFrequency)
            [] OTHER
                 -> getFrequency' = getFrequency]_vars

\* C22: golden case.  After begin(25000000) and then
\* setFrequency(145000000), the divider exponent in register 4 bits 20 to 22
\* is 4, the VCO frequency is 2,320,000,000, and register 0 holds INT = 92
\* in bits 15 to 30 and FRAC = 800 in bits 3 to 14 with address bits 000:
\* register 0 = (92 << 15) | (800 << 3).
C22_GoldenCase ==
    (/\ lastOp = "setFrequency"
     /\ lastArg = Hz(145, 0)
     /\ refFreq = Hz(25, 0))
        => /\ lastRet = "true"
           /\ BitsBetween(registers[4], 20, 23) = 4
           /\ VcoFreq(frequency) = Hz(2320, 0)
           /\ BitsBetween(registers[0], 15, 31) = 92
           /\ BitsBetween(registers[0], 3, 15) = 800
           /\ Address(registers[0]) = 0
           /\ registers[0] = WInt(92 * 32768 + 800 * 8)

\* C23: isLocked() returns true in every reachable state, whatever has been
\* programmed, and has no effect on the register array, the stored fields
\* or the bus lines.
C23_AlwaysLocked ==
    [][lastOp' = "isLocked"
         => /\ lastRet' = "true"
            /\ UNCHANGED <<frequency, refFreq, powerLevel, outputEnabled,
                           lowNoiseMode, registers>>
            /\ UNCHANGED <<pinsOutput, pinLevel>>
            /\ bus' = <<>>]_vars

\* isLocked has returned true on an object programmed for 145 MHz with the
\* output disabled, the bus lines idle
C23_Witness ==
    /\ lastOp = "isLocked"
    /\ lastRet = "true"
    /\ frequency = Hz(145, 0)
    /\ ~outputEnabled
    /\ pinLevel["LE"] = "HIGH"

\* the six baseline words of begin, 0x00580005, 0x00800024, 0x000004B3,
\* 0x00004E42, 0x08008011 and 0x00580000, in the order they are written
BaselineWords ==
    << <<88, 5>>, <<128, 36>>, <<0, 1203>>, <<0, 20034>>, <<2048, 32785>>, <<88, 0>> >>

\* C24: begin first drives the pins to bus idle (latch high, clock low,
\* data low, chip enable high) before any bit is shifted, then transmits
\* exactly twelve words: the six hard-coded baseline words in the order
\* register 5, 4, 3, 2, 1, 0, followed by the six words computed for
\* 100,000,000 Hz in the order 5, 4, 3, 2, 1, 0.
C24_BeginSequence ==
    lastOp = "begin"
        => /\ Len(setup) = 4
           /\ \A p \in Pins : \E k \in 1..4 : setup[k][1] = p
           /\ \A k \in 1..4 :
                 setup[k][2] = (IF setup[k][1] \in {"LE", "CE"} THEN "HIGH" ELSE "LOW")
           /\ SubSeq(bus, 1, 4) = setup
           /\ bus[5] = <<"LE", "LOW">>
           /\ Len(bus) = 4 + 12 * TransferLen
           /\ Len(sent) = 12
           /\ SubSeq(sent, 1, 6) = BaselineWords
           /\ \A k \in 1..6 : Address(sent[k]) = 6 - k
           /\ getFrequency = Hz(100, 0)
           /\ \A k \in 1..6 : sent[6 + k] = registers[6 - k]
           /\ \A k \in 1..6 : Address(sent[6 + k]) = 6 - k
           /\ BitsBetween(sent[8], 20, 23) = 5
           /\ sent[12] = <<64, 0>>

\* begin has returned on an object set to low-spur mode before: the fourth
\* word is the baseline register 2 and the tenth the computed one
C24_Witness ==
    /\ lastOp = "begin"
    /\ ~lowNoiseMode
    /\ Len(sent) = 12
    /\ sent[4] = <<0, 20034>>
    /\ WordBit(sent[10], 20) = 1
    /\ pinLevel = [CLK |-> "LOW", DATA |-> "LOW", LE |-> "HIGH", CE |-> "HIGH"]

\* the positions of the latch writes among the calls b
LatchWrites(b) == {k \in 1..Len(b) : b[k][1] = "LE"}

\* the number of calls among b[from..to] that raise the clock
ClockPulses(b, from, to) == Cardinality({m \in from..to : b[m] = <<"CLK", "HIGH">>})

\* every public operation, called in this state with any argument, returns
\* after a finite number of register writes
AllReturn ==
    /\ \A r \in begin(This, Hz(25, 0)) : Len(r.words) = 2 * NumRegisters
    /\ Cardinality(begin(This, Hz(25, 0))) >= 1
    /\ \A arg \in Requests :
          /\ Cardinality(setFrequency(This, arg)) >= 1
          /\ \A r \in setFrequency(This, arg) : Len(r.words) \in {0, NumRegisters}
    /\ \A level \in Levels : Len(setPowerLevel(This, level).words) = 1
    /\ \A enable \in BOOLEAN : Len(enableOutput(This, enable).words) = 1
    /\ \A phase \in Phases : Len(setPhase(This, phase).words) = 1
    /\ \A lowNoise \in BOOLEAN : Len(setLowNoiseMode(This, lowNoise).words) = 1

\* C25: every public operation terminates, and whenever no register write
\* is in progress (between the writes of a full update and after every
\* public operation returns, once begin has run) the bus is idle with latch
\* high and clock low; the latch is low only during a transfer and goes
\* high again only after exactly 32 clock pulses, so no transfer is partial
\* and two transfers never overlap.
C25_TransfersWhole ==
    LET b == bus
        lows == {k \in LatchWrites(b) : b[k][2] = "LOW"}
    IN  /\ AllReturn
        /\ Len(b) = Len(setup) + TransferLen * Len(sent)
        /\ pinsOutput => pinLevel["LE"] = "HIGH" /\ pinLevel["CLK"] = "LOW"
        /\ Cardinality(lows) = Len(sent)
        /\ \A k \in lows :
              LET n == k + TransferLen - 1
              IN  /\ n <= Len(b)
                  /\ \A m \in (k + 1)..(n - 1) : b[m][1] # "LE"
                  /\ b[n] = <<"LE", "HIGH">>
                  /\ ClockPulses(b, k, n) = 32
                  /\ b[n - 1] = <<"CLK", "LOW">>
                  /\ n = Len(b) \/ b[n + 1] = <<"LE", "LOW">>
        /\ ClockPulses(b, 1, Len(b)) = 32 * Len(sent)

\* a successful setFrequency after begin has made six whole transfers and
\* left the latch high and the clock low
C25_Witness ==
    /\ pinsOutput
    /\ Succeeded
    /\ Cardinality({k \in LatchWrites(bus) : bus[k] = <<"LE", "LOW">>}) = 6
    /\ ClockPulses(bus, 1, Len(bus)) = 6 * 32
    /\ pinLevel["LE"] = "HIGH"
    /\ pinLevel["CLK"] = "LOW"

\* C26: the VCO frequency that updateRegisters computes in its 32-bit
\* unsigned variable equals the exact product hz * 2^d for every accepted
\* frequency hz: the multiplication never wraps modulo 2^32.
C26_VcoProductExact ==
    Succeeded
        => /\ VcoFreq(getFrequency) = ExactVco(getFrequency, DividerField)
           /\ WLeq(ExactVco(getFrequency, DividerField), MaxU32)

\* C27: with a 25,000,000 Hz reference, for every accepted frequency the INT
\* value setFrequency writes to register 0 bits 15 to 30 lies in [88, 176],
\* the ratio of the VCO band to the PFD frequency; it fits the 16-bit field
\* without truncation and does not spill into bit 31 or into the FRAC
\* field.
C27_IntInBand ==
    (Succeeded /\ refFreq = Hz(25, 0))
        => /\ BitsBetween(registers[0], 15, 31) \in 88..176
           /\ WInt(BitsBetween(registers[0], 15, 31))
                 = ExactInt(getFrequency, DividerField, refFreq)
           /\ WordBit(registers[0], 31) = 0
           /\ BitsBetween(registers[0], 3, 15) < Mod

\* C28: after every successful setFrequency, the FRAC value in register 0
\* bits 3 to 14 is strictly less than the modulus 1000 written to register
\* 1 bits 3 to 14 (0 <= FRAC < MOD), for every accepted frequency and a
\* 25,000,000 Hz reference.
C28_FracBelowMod ==
    (Succeeded /\ refFreq = Hz(25, 0))
        => /\ BitsBetween(registers[1], 3, 15) = 1000
           /\ BitsBetween(registers[0], 3, 15) \in 0..999
           /\ BitsBetween(registers[0], 3, 15) < BitsBetween(registers[1], 3, 15)
           /\ BitsBetween(sent[6], 3, 15) < BitsBetween(sent[5], 3, 15)

\* setFrequency(2224999999) with a 25 MHz reference: the quotient is
\* 88.99999996 and FRAC is 999, the largest value below the modulus
C28_Witness ==
    /\ Succeeded
    /\ refFreq = Hz(25, 0)
    /\ getFrequency = Hz(2224, 999999)
    /\ BitsBetween(registers[0], 15, 31) = 88
    /\ BitsBetween(registers[0], 3, 15) = 999

\* the object with its register array replaced by regs
WithRegisters(regs) == [This EXCEPT !.registers = regs]

====
